---- MODULE Spec2Model ----
(***************************************************************************)
(* Model of lib/review.py: the Review class, its validated properties, its *)
(* identity cache Review.all and its ORM methods over the sqlite table     *)
(* "reviews".  The Employee collaborator is modelled as a set of ids.      *)
(***************************************************************************)
EXTENDS Integers, Sequences, FiniteSets, TLC

\* ----- bounds of the model -----
MaxInst == 2      \* Review objects the caller can hold
MaxId == 2        \* largest rowid the reviews table hands out
MaxEmp == 1       \* largest employee id
MaxValInst == 1   \* Review objects of the constructor-and-setters specification

\* ----- program constants -----
MinYear == 2000   \* review.py:27
NoneId == 0       \* review.py:10, id=None (sqlite rowids start at 1)

Objs == 1..MaxInst
EmpIds == 1..MaxEmp

\* ----- Python values, tagged with their type -----
IntV(n) == [t |-> "int", n |-> n, s |-> <<>>]
BoolV(b) == [t |-> "bool", n |-> IF b THEN 1 ELSE 0, s |-> <<>>]
FloatV(n) == [t |-> "float", n |-> n, s |-> <<>>]
StrV(s) == [t |-> "str", n |-> 0, s |-> s]
NoneV == [t |-> "none", n |-> 0, s |-> <<>>]

\* the values a caller passes in: to the calls of the whole program ...
ValidYears == {IntV(MinYear), IntV(MinYear + 1)}
ValidSummaries == {StrV(<<"A">>), StrV(<<" ", "B">>)}
Years == ValidYears \cup {IntV(MinYear - 1)}
Summaries == ValidSummaries \cup {StrV(<<" ">>)}
EmployeeIds == {IntV(e) : e \in 0..MaxEmp}
IdInputs == {IntV(n) : n \in 0..MaxId} \cup {NoneV}
\* ... and to the constructor and the setters alone, every type among them
YearInputs == Years \cup {BoolV(TRUE), FloatV(MinYear), StrV(<<"A">>), NoneV}
SummaryInputs == Summaries \cup {StrV(<<>>), StrV(<<"B", " ">>), IntV(1), NoneV}
EmployeeIdInputs == EmployeeIds \cup {BoolV(TRUE), BoolV(FALSE), FloatV(1),
                                      StrV(<<"A">>), NoneV}
\* the arguments of a constructor call: each argument takes every value while
\* the other two are valid, and all three are not valid
InitInputs ==
    (YearInputs \X ValidSummaries \X {IntV(1)})
    \cup (ValidYears \X SummaryInputs \X {IntV(1)})
    \cup (ValidYears \X ValidSummaries \X EmployeeIdInputs)
    \cup {<<NoneV, NoneV, NoneV>>}

VARIABLES
    tableExists,  \* the reviews table is present in the database
    rows,         \* the reviews table: rowid -> [year, summary, employee_id]
    all,          \* Review.all, the identity cache: id -> object
    inst,         \* the Review objects: object -> [used, id, year, summary, employee_id]
    employees,    \* ids of the rows of the employees table
    last,         \* the last call and its outcome: error raised, objects returned
    hist          \* counts of creates and deletes since an empty table

vars == <<tableExists, rows, all, inst, employees, last, hist>>

\* ----- helpers on finite maps -----
Empty == <<>>
Without(f, k) == [x \in DOMAIN f \ {k} |-> f[x]]
With(f, k, v) == [x \in DOMAIN f \cup {k} |-> IF x = k THEN v ELSE f[x]]
MaxOf(S) == CHOOSE x \in S : \A y \in S : y <= x

\* ----- property validations (review.py:24-54) -----
isinstance_int(v) == v.t \in {"int", "bool"}
isinstance_str(v) == v.t = "str"

\* the year check without its lower limit
year_ok_nomin(v) == isinstance_int(v)
year_ok(v) == isinstance_int(v) /\ v.n >= MinYear

RECURSIVE lstrip(_)
lstrip(s) == IF s # <<>> /\ Head(s) = " " THEN lstrip(Tail(s)) ELSE s
RECURSIVE rstrip(_)
rstrip(s) == IF s # <<>> /\ s[Len(s)] = " " THEN rstrip(SubSeq(s, 1, Len(s) - 1)) ELSE s
strip(s) == rstrip(lstrip(s))

\* the summary check on the string as given, not stripped
summary_ok_nostrip(v) == isinstance_str(v) /\ Len(v.s) > 0
summary_ok(v) == isinstance_str(v) /\ Len(strip(v.s)) > 0

\* Employee.find_by_id(employee_id) on the employees table E: truthy iff the
\* table has the row
Employee_find_by_id(E, v) == v.n \in E

\* the employee_id check without the lookup
employee_id_ok_nolookup(E, v) == isinstance_int(v)
employee_id_ok(E, v) == isinstance_int(v) /\ Employee_find_by_id(E, v)

\* a setter applied to object record r: [ok, r]
year_setter(r, v) ==
    IF year_ok(v) THEN [ok |-> TRUE, r |-> [r EXCEPT !.year = v]]
    ELSE [ok |-> FALSE, r |-> r]
summary_setter(r, v) ==
    IF summary_ok(v) THEN [ok |-> TRUE, r |-> [r EXCEPT !.summary = v]]
    ELSE [ok |-> FALSE, r |-> r]
employee_id_setter(E, r, v) ==
    IF employee_id_ok(E, v) THEN [ok |-> TRUE, r |-> [r EXCEPT !.employee_id = v]]
    ELSE [ok |-> FALSE, r |-> r]

\* the three assignments of __init__ and of instance_from_db, in order; the
\* first that raises ends the sequence and keeps the assignments made so far
assign_fields(E, r, y, s, e) ==
    LET a == year_setter(r, y) IN
    IF ~a.ok THEN a ELSE
    LET b == summary_setter(a.r, s) IN
    IF ~b.ok THEN b ELSE
    employee_id_setter(E, b.r, e)

NoInst == [used |-> FALSE, id |-> NoneId, year |-> NoneV, summary |-> NoneV,
           employee_id |-> NoneV]

\* Review.__init__(year, summary, employee_id, id=None)
init(E, y, s, e) == assign_fields(E, [NoInst EXCEPT !.used = TRUE], y, s, e)

Free(I) == {i \in Objs : ~I[i].used}
NewObj(I) == CHOOSE i \in Free(I) : \A j \in Free(I) : i <= j

\* ----- sqlite -----
\* binding a Python value as a statement parameter: bool is bound as integer
ToDb(v) == IF v.t = "bool" THEN IntV(v.n) ELSE v
\* a row whose year column is always the smallest year
RowOf_noyear(r) == [year |-> IntV(MinYear), summary |-> ToDb(r.summary),
                    employee_id |-> ToDb(r.employee_id)]
RowOf(r) == [year |-> ToDb(r.year), summary |-> ToDb(r.summary),
             employee_id |-> ToDb(r.employee_id)]
\* INTEGER PRIMARY KEY: the new rowid is one more than the largest in the table
NewRowId(R) == IF DOMAIN R = {} THEN 1 ELSE MaxOf(DOMAIN R) + 1

\* the state the methods work on: T table present, R its rows, I the objects,
\* A Review.all, E the employees table
State(T, R, I, A, E) == [T |-> T, R |-> R, I |-> I, A |-> A, E |-> E]
Now == State(tableExists, rows, inst, all, employees)

Last(op, ok, err, ret) ==
    [op |-> op, ok |-> ok, err |-> err, ret |-> ret]

\* the outcome of a method: error raised, objects returned, rows, objects and
\* cache it leaves; full: the model has no object left to construct
Out(ok, err, ret, R, I, A, full) ==
    [ok |-> ok, err |-> err, ret |-> ret, R |-> R, I |-> I, A |-> A, full |-> full]

\* create_table without IF NOT EXISTS semantics: the table starts empty
create_table_empty(S) == State(TRUE, Empty, S.I, S.A, S.E)

\* ----- Review.create_table() (review.py:57-70) -----
\* CREATE TABLE IF NOT EXISTS: a table that is present keeps its rows
create_table(S) == State(TRUE, S.R, S.I, S.A, S.E)

\* ----- Review.drop_table() (review.py:72-76) -----
\* DROP TABLE IF EXISTS: the rows go with the table; Review.all is not touched
drop_table(S) == State(FALSE, Empty, S.I, S.A, S.E)

\* instance_from_db that returns the cached object as it is, not refreshed
instance_from_db_norefresh(E, I, A, rid, row) ==
    IF rid \in DOMAIN A
    THEN Out(TRUE, "", <<A[rid]>>, Empty, I, A, FALSE)
    ELSE LET a == init(E, row.year, row.summary, row.employee_id) IN
         IF ~a.ok THEN Out(FALSE, "ValueError", <<>>, Empty, I, A, FALSE)
         ELSE IF Free(I) = {} THEN Out(FALSE, "", <<>>, Empty, I, A, TRUE)
         ELSE LET o == NewObj(I) IN
              Out(TRUE, "", <<o>>, Empty, [I EXCEPT ![o] = [a.r EXCEPT !.id = rid]],
                  With(A, rid, o), FALSE)

\* instance_from_db that never looks in the cache: a new object for every fetch
instance_from_db_fresh(E, I, A, rid, row) ==
    LET a == init(E, row.year, row.summary, row.employee_id) IN
    IF ~a.ok THEN Out(FALSE, "ValueError", <<>>, Empty, I, A, FALSE)
    ELSE IF Free(I) = {} THEN Out(FALSE, "", <<>>, Empty, I, A, TRUE)
    ELSE LET o == NewObj(I) IN
         Out(TRUE, "", <<o>>, Empty, [I EXCEPT ![o] = [a.r EXCEPT !.id = rid]],
             With(A, rid, o), FALSE)

\* ----- Review.instance_from_db(row) (review.py:96-108) -----
instance_from_db(E, I, A, rid, row) ==
    IF rid \in DOMAIN A
    THEN LET o == A[rid]
             a == assign_fields(E, I[o], row.year, row.summary, row.employee_id)
         IN Out(a.ok, IF a.ok THEN "" ELSE "ValueError", <<o>>, Empty,
                [I EXCEPT ![o] = a.r], A, FALSE)
    ELSE LET a == init(E, row.year, row.summary, row.employee_id) IN
         IF ~a.ok THEN Out(FALSE, "ValueError", <<>>, Empty, I, A, FALSE)
         ELSE IF Free(I) = {} THEN Out(FALSE, "", <<>>, Empty, I, A, TRUE)
         ELSE LET o == NewObj(I) IN
              Out(TRUE, "", <<o>>, Empty, [I EXCEPT ![o] = [a.r EXCEPT !.id = rid]],
                  With(A, rid, o), FALSE)

\* find_by_id that answers from the cache when the cache has the id
find_by_id_cached(S, idv) ==
    IF ~S.T THEN Out(FALSE, "OperationalError", <<>>, S.R, S.I, S.A, FALSE)
    ELSE IF isinstance_int(idv) /\ idv.n \in DOMAIN S.A
    THEN Out(TRUE, "", <<S.A[idv.n]>>, S.R, S.I, S.A, FALSE)
    ELSE IF isinstance_int(idv) /\ idv.n \in DOMAIN S.R
    THEN LET o == instance_from_db(S.E, S.I, S.A, idv.n, S.R[idv.n]) IN
         Out(o.ok, o.err, IF o.ok THEN o.ret ELSE <<>>, S.R, o.I, o.A, o.full)
    ELSE Out(TRUE, "", <<>>, S.R, S.I, S.A, FALSE)

\* ----- Review.find_by_id(id) (review.py:110-115) -----
find_by_id(S, idv) ==
    IF ~S.T THEN Out(FALSE, "OperationalError", <<>>, S.R, S.I, S.A, FALSE)
    ELSE IF isinstance_int(idv) /\ idv.n \in DOMAIN S.R
    THEN LET o == instance_from_db(S.E, S.I, S.A, idv.n, S.R[idv.n]) IN
         Out(o.ok, o.err, IF o.ok THEN o.ret ELSE <<>>, S.R, o.I, o.A, o.full)
    ELSE Out(TRUE, "", <<>>, S.R, S.I, S.A, FALSE)

\* ----- Review.get_all() (review.py:135-140) -----
\* the rows in rowid order; a row that raises ends the comprehension
RECURSIVE from_rows(_, _, _, _, _)
from_rows(S, I, A, ids, acc) ==
    IF ids = {} THEN Out(TRUE, "", acc, S.R, I, A, FALSE)
    ELSE LET rid == CHOOSE x \in ids : \A y \in ids : x <= y
             o == instance_from_db(S.E, I, A, rid, S.R[rid])
         IN IF ~o.ok THEN Out(FALSE, o.err, <<>>, S.R, o.I, o.A, o.full)
            ELSE from_rows(S, o.I, o.A, ids \ {rid}, acc \o o.ret)

get_all(S) ==
    IF ~S.T THEN Out(FALSE, "OperationalError", <<>>, S.R, S.I, S.A, FALSE)
    ELSE from_rows(S, S.I, S.A, DOMAIN S.R, <<>>)

\* save that does not register the object in the cache
save_nocache(S, i) ==
    IF ~S.T THEN Out(FALSE, "OperationalError", <<>>, S.R, S.I, S.A, FALSE)
    ELSE LET rid == NewRowId(S.R) IN
         Out(TRUE, "", <<>>, With(S.R, rid, RowOf(S.I[i])),
             [S.I EXCEPT ![i].id = rid], S.A, FALSE)

\* ----- Review.save() (review.py:78-87) -----
save(S, i) ==
    IF ~S.T THEN Out(FALSE, "OperationalError", <<>>, S.R, S.I, S.A, FALSE)
    ELSE LET rid == NewRowId(S.R) IN
         Out(TRUE, "", <<>>, With(S.R, rid, RowOf(S.I[i])),
             [S.I EXCEPT ![i].id = rid], With(S.A, rid, i), FALSE)

\* create that stores its arguments without the setters' validation
create_unchecked(S, y, s, e) ==
    IF Free(S.I) = {} THEN Out(FALSE, "", <<>>, S.R, S.I, S.A, TRUE)
    ELSE LET i == NewObj(S.I)
             r == [NoInst EXCEPT !.used = TRUE, !.year = y, !.summary = s,
                                 !.employee_id = e]
             o == save([S EXCEPT !.I = [S.I EXCEPT ![i] = r]], i)
         IN IF o.ok THEN [o EXCEPT !.ret = <<i>>]
            ELSE Out(FALSE, o.err, <<>>, S.R, S.I, S.A, FALSE)

\* ----- Review.create(year, summary, employee_id) (review.py:89-94) -----
create(S, y, s, e) ==
    LET a == init(S.E, y, s, e) IN
    IF ~a.ok THEN Out(FALSE, "ValueError", <<>>, S.R, S.I, S.A, FALSE)
    ELSE IF Free(S.I) = {} THEN Out(FALSE, "", <<>>, S.R, S.I, S.A, TRUE)
    ELSE LET i == NewObj(S.I)
             o == save([S EXCEPT !.I = [S.I EXCEPT ![i] = a.r]], i)
         IN IF o.ok THEN [o EXCEPT !.ret = <<i>>]
            ELSE Out(FALSE, o.err, <<>>, S.R, S.I, S.A, FALSE)

\* update whose statement has no WHERE clause: every row is overwritten
update_nowhere(S, i) ==
    IF ~S.T THEN Out(FALSE, "OperationalError", <<>>, S.R, S.I, S.A, FALSE)
    ELSE Out(TRUE, "", <<>>, [k \in DOMAIN S.R |-> RowOf(S.I[i])], S.I, S.A, FALSE)

\* update that leaves the summary column out of the SET clause
update_nosummary(S, i) ==
    IF ~S.T THEN Out(FALSE, "OperationalError", <<>>, S.R, S.I, S.A, FALSE)
    ELSE Out(TRUE, "", <<>>,
             IF S.I[i].id \in DOMAIN S.R
             THEN With(S.R, S.I[i].id,
                       [RowOf(S.I[i]) EXCEPT !.summary = S.R[S.I[i].id].summary])
             ELSE S.R,
             S.I, S.A, FALSE)

\* ----- Review.update() (review.py:117-125) -----
update(S, i) ==
    IF ~S.T THEN Out(FALSE, "OperationalError", <<>>, S.R, S.I, S.A, FALSE)
    ELSE Out(TRUE, "", <<>>,
             IF S.I[i].id \in DOMAIN S.R
             THEN With(S.R, S.I[i].id, RowOf(S.I[i])) ELSE S.R,
             S.I, S.A, FALSE)

\* delete that tolerates an id the cache does not have
delete_quiet(S, i) ==
    IF ~S.T THEN Out(FALSE, "OperationalError", <<>>, S.R, S.I, S.A, FALSE)
    ELSE Out(TRUE, "", <<>>, Without(S.R, S.I[i].id),
             [S.I EXCEPT ![i].id = NoneId], Without(S.A, S.I[i].id), FALSE)

\* delete whose statement removes no row
delete_keeprow(S, i) ==
    IF ~S.T THEN Out(FALSE, "OperationalError", <<>>, S.R, S.I, S.A, FALSE)
    ELSE IF S.I[i].id \notin DOMAIN S.A
    THEN Out(FALSE, "KeyError", <<>>, S.R, S.I, S.A, FALSE)
    ELSE Out(TRUE, "", <<>>, S.R,
             [S.I EXCEPT ![i].id = NoneId], Without(S.A, S.I[i].id), FALSE)

\* delete that forgets the cache entry
delete_keepcache(S, i) ==
    IF ~S.T THEN Out(FALSE, "OperationalError", <<>>, S.R, S.I, S.A, FALSE)
    ELSE Out(TRUE, "", <<>>, Without(S.R, S.I[i].id),
             [S.I EXCEPT ![i].id = NoneId], S.A, FALSE)

\* ----- Review.delete() (review.py:127-133) -----
delete(S, i) ==
    IF ~S.T THEN Out(FALSE, "OperationalError", <<>>, S.R, S.I, S.A, FALSE)
    ELSE IF S.I[i].id \notin DOMAIN S.A
    THEN Out(FALSE, "KeyError", <<>>, Without(S.R, S.I[i].id), S.I, S.A, FALSE)
    ELSE Out(TRUE, "", <<>>, Without(S.R, S.I[i].id),
             [S.I EXCEPT ![i].id = NoneId], Without(S.A, S.I[i].id), FALSE)

\* ----- history of the create/delete scenario -----
HistOff == [valid |-> FALSE, n |-> 0, m |-> 0]

\* ----- initial states -----
\* a fresh process: Review.all = {} (review.py:8); the database file may hold
\* the reviews table, with a row that an earlier run saved
InitRows == {Empty,
             With(Empty, 1, [year |-> IntV(MinYear), summary |-> StrV(<<"A">>),
                             employee_id |-> IntV(1)])}

Init ==
    /\ tableExists \in BOOLEAN
    /\ rows \in (IF tableExists THEN InitRows ELSE {Empty})
    /\ all = Empty
    /\ inst = [i \in Objs |-> NoInst]
    /\ employees = EmpIds
    /\ last = Last("start", TRUE, "", <<>>)
    /\ hist = [valid |-> tableExists /\ rows = Empty, n |-> 0, m |-> 0]

\* ----- actions: one per call the caller can make -----
\* Review.create_table() (review.py:57-70)
CreateTable ==
    /\ tableExists' = create_table(Now).T
    /\ rows' = create_table(Now).R
    /\ last' = Last("create_table", TRUE, "", <<>>)
    /\ hist' = HistOff
    /\ UNCHANGED <<all, inst, employees>>

\* Review.drop_table() (review.py:72-76)
DropTable ==
    /\ tableExists' = drop_table(Now).T
    /\ rows' = drop_table(Now).R
    /\ last' = Last("drop_table", TRUE, "", <<>>)
    /\ hist' = HistOff
    /\ UNCHANGED <<all, inst, employees>>

\* Review(year, summary, employee_id) (review.py:10-14)
Construct(y, s, e) ==
    LET a == init(employees, y, s, e) IN
    /\ Free(inst) # {}
    /\ inst' = IF a.ok THEN [inst EXCEPT ![NewObj(inst)] = a.r] ELSE inst
    /\ last' = Last("init", a.ok, IF a.ok THEN "" ELSE "ValueError",
                    IF a.ok THEN <<NewObj(inst)>> ELSE <<>>)
    /\ hist' = HistOff
    /\ UNCHANGED <<tableExists, rows, all, employees>>

\* r.year = v (review.py:24-30)
SetYear(i, v) ==
    LET a == year_setter(inst[i], v) IN
    /\ inst[i].used
    /\ inst' = [inst EXCEPT ![i] = a.r]
    /\ last' = Last("year", a.ok, IF a.ok THEN "" ELSE "ValueError", <<>>)
    /\ hist' = HistOff
    /\ UNCHANGED <<tableExists, rows, all, employees>>

\* r.summary = v (review.py:36-42)
SetSummary(i, v) ==
    LET a == summary_setter(inst[i], v) IN
    /\ inst[i].used
    /\ inst' = [inst EXCEPT ![i] = a.r]
    /\ last' = Last("summary", a.ok, IF a.ok THEN "" ELSE "ValueError", <<>>)
    /\ hist' = HistOff
    /\ UNCHANGED <<tableExists, rows, all, employees>>

\* r.employee_id = v (review.py:48-54)
SetEmployeeId(i, v) ==
    LET a == employee_id_setter(employees, inst[i], v) IN
    /\ inst[i].used
    /\ inst' = [inst EXCEPT ![i] = a.r]
    /\ last' = Last("employee_id", a.ok, IF a.ok THEN "" ELSE "ValueError", <<>>)
    /\ hist' = HistOff
    /\ UNCHANGED <<tableExists, rows, all, employees>>

\* the effect of a method's outcome o on the database, the objects and the cache
Effect(op, o) ==
    /\ rows' = o.R
    /\ inst' = o.I
    /\ all' = o.A
    /\ last' = Last(op, o.ok, o.err, o.ret)
    /\ UNCHANGED <<tableExists, employees>>

\* r.save() (review.py:78-87)
Save(i) ==
    /\ inst[i].used
    /\ NewRowId(rows) <= MaxId
    /\ Effect("save", save(Now, i))
    /\ hist' = HistOff

\* Review.create(year, summary, employee_id) (review.py:89-94)
Create(y, s, e) ==
    LET o == create(Now, y, s, e) IN
    /\ ~o.full
    /\ NewRowId(rows) <= MaxId
    /\ Effect("create", o)
    /\ hist' = IF hist.valid /\ o.ok THEN [hist EXCEPT !.n = @ + 1] ELSE hist

\* Review.find_by_id(id) (review.py:110-115)
FindById(idv) ==
    LET o == find_by_id(Now, idv) IN
    /\ ~o.full
    /\ Effect("find_by_id", o)
    /\ hist' = hist

\* Review.get_all() (review.py:135-140)
GetAll ==
    LET o == get_all(Now) IN
    /\ ~o.full
    /\ Effect("get_all", o)
    /\ hist' = hist

\* r.update() (review.py:117-125)
Update(i) ==
    /\ inst[i].used
    /\ Effect("update", update(Now, i))
    /\ hist' = HistOff

\* r.delete() (review.py:127-133)
Delete(i) ==
    LET o == delete(Now, i) IN
    /\ inst[i].used
    /\ Effect("delete", o)
    /\ hist' = IF hist.valid /\ o.ok /\ inst[i].id \in DOMAIN rows
               THEN [hist EXCEPT !.m = @ + 1] ELSE HistOff

\* the Employee collaborator: a row of the employees table is added or deleted
AddEmployee(e) ==
    /\ e \notin employees
    /\ employees' = employees \cup {e}
    /\ last' = Last("employee_add", TRUE, "", <<>>)
    /\ hist' = HistOff
    /\ UNCHANGED <<tableExists, rows, all, inst>>

DeleteEmployee(e) ==
    /\ e \in employees
    /\ employees' = employees \ {e}
    /\ last' = Last("employee_delete", TRUE, "", <<>>)
    /\ hist' = HistOff
    /\ UNCHANGED <<tableExists, rows, all, inst>>

Next ==
    \/ CreateTable
    \/ DropTable
    \/ \E y \in Years, s \in Summaries, e \in EmployeeIds : Construct(y, s, e)
    \/ \E i \in Objs, v \in Years : SetYear(i, v)
    \/ \E i \in Objs, v \in Summaries : SetSummary(i, v)
    \/ \E i \in Objs, v \in EmployeeIds : SetEmployeeId(i, v)
    \/ \E i \in Objs : Save(i)
    \/ \E y \in Years, s \in Summaries, e \in EmployeeIds : Create(y, s, e)
    \/ \E idv \in IdInputs : FindById(idv)
    \/ GetAll
    \/ \E i \in Objs : Update(i)
    \/ \E i \in Objs : Delete(i)
    \/ \E e \in EmpIds : AddEmployee(e)
    \/ \E e \in EmpIds : DeleteEmployee(e)

Spec == Init /\ [][Next]_vars

\* the calls of the lifecycle alone: the table is neither created nor dropped
NextCrud ==
    \/ \E y \in Years, s \in Summaries, e \in EmployeeIds : Construct(y, s, e)
    \/ \E i \in Objs, v \in Years : SetYear(i, v)
    \/ \E i \in Objs, v \in Summaries : SetSummary(i, v)
    \/ \E i \in Objs, v \in EmployeeIds : SetEmployeeId(i, v)
    \/ \E i \in Objs : Save(i)
    \/ \E y \in Years, s \in Summaries, e \in EmployeeIds : Create(y, s, e)
    \/ \E idv \in IdInputs : FindById(idv)
    \/ GetAll
    \/ \E i \in Objs : Update(i)
    \/ \E i \in Objs : Delete(i)
    \/ \E e \in EmpIds : AddEmployee(e)
    \/ \E e \in EmpIds : DeleteEmployee(e)

SpecCrud == Init /\ [][NextCrud]_vars

\* the constructor and the setters alone, on values of every type
InitVal ==
    /\ tableExists = FALSE
    /\ rows = Empty
    /\ all = Empty
    /\ inst = [i \in Objs |-> NoInst]
    /\ employees = EmpIds
    /\ last = Last("start", TRUE, "", <<>>)
    /\ hist = HistOff

NextVal ==
    \/ /\ Cardinality({i \in Objs : inst[i].used}) < MaxValInst
       /\ \E a \in InitInputs : Construct(a[1], a[2], a[3])
    \/ \E i \in Objs, v \in YearInputs : SetYear(i, v)
    \/ \E i \in Objs, v \in SummaryInputs : SetSummary(i, v)
    \/ \E i \in Objs, v \in EmployeeIdInputs : SetEmployeeId(i, v)
    \/ \E e \in EmpIds : AddEmployee(e)
    \/ \E e \in EmpIds : DeleteEmployee(e)

SpecVal == InitVal /\ [][NextVal]_vars

\* ----- properties -----
Fields(r) == <<r.year, r.summary, r.employee_id>>
RowFields(w) == <<w.year, w.summary, w.employee_id>>
\* the rowids of the table in rowid order, as get_all reads them
RECURSIVE Ascending(_)
Ascending(S) ==
    IF S = {} THEN <<>>
    ELSE LET x == CHOOSE x \in S : \A y \in S : x <= y IN <<x>> \o Ascending(S \ {x})

\* the state after the step
Then == State(tableExists', rows', inst', all', employees')

\* C1: a find_by_id(N) that returns an object returns the object the identity
\* cache binds to N, which is the one it bound to N before the call when it had
\* one; a second find_by_id(N) returns that same object again; and get_all
\* returns, for every row, the object the cache binds to the row's id.
C1_Identity ==
    [][/\ (last'.op = "find_by_id" /\ last'.ok /\ last'.ret # <<>>) =>
            \A idv \in IdInputs : FindById(idv) =>
                /\ idv.n \in DOMAIN all'
                /\ last'.ret = <<all'[idv.n]>>
                /\ idv.n \in DOMAIN all => all'[idv.n] = all[idv.n]
                /\ find_by_id(Then, idv).ok
                /\ find_by_id(Then, idv).ret = last'.ret
       /\ (last'.op = "get_all" /\ last'.ok /\ GetAll) =>
                /\ Len(last'.ret) = Cardinality(DOMAIN rows)
                /\ \A k \in 1..Len(last'.ret) :
                      LET rid == Ascending(DOMAIN rows)[k] IN
                      /\ rid \in DOMAIN all'
                      /\ last'.ret[k] = all'[rid]
                      /\ rid \in DOMAIN all => all'[rid] = all[rid]
                /\ get_all(Then).ret = last'.ret
      ]_vars

\* with two rows cached under two objects, a find_by_id returned the second
C1_Witness ==
    /\ last.op = "find_by_id" /\ last.ok /\ last.ret # <<>>
    /\ DOMAIN all = {1, 2} /\ DOMAIN rows = {1, 2}
    /\ all[1] # all[2]
    /\ last.ret = <<all[2]>>

\* C2: after a create(year, summary, employee_id) that returns r, a
\* find_by_id(r.id) returns r itself, with the year, summary and employee_id
\* that were passed to create and the id that create gave it.
C2_RoundTrip ==
    [][(last'.op = "create" /\ last'.ok) =>
          \A y \in Years, s \in Summaries, e \in EmployeeIds : Create(y, s, e) =>
              LET r == last'.ret[1]
                  f == find_by_id(Then, IntV(inst'[r].id))
              IN /\ inst'[r].id # NoneId
                 /\ f.ok
                 /\ f.ret = <<r>>
                 /\ Fields(f.I[r]) = <<y, s, e>>
                 /\ f.I[r].id = inst'[r].id
      ]_vars

\* a create returned an object with the later year and the padded summary
C2_Witness ==
    /\ last.op = "create" /\ last.ok
    /\ inst[last.ret[1]].year = IntV(MinYear + 1)
    /\ inst[last.ret[1]].summary = StrV(<<" ", "B">>)
    /\ inst[last.ret[1]].id = MaxId

\* C3 as the code has it: the row holds r's fields; the find_by_id returns
\* an object with those fields when r's employee_id is the id of an employee,
\* and raises ValueError when it is not.
C3_Update ==
    [][(last'.op = "update") =>
          \A i \in Objs :
              (Update(i) /\ inst[i].id # NoneId /\ inst[i].id \in DOMAIN rows) =>
                  LET f == find_by_id(Then, IntV(inst[i].id)) IN
                  /\ last'.ok
                  /\ RowFields(rows'[inst[i].id]) = Fields(inst[i])
                  /\ inst[i].employee_id.n \in employees =>
                        /\ f.ok /\ f.ret # <<>>
                        /\ Fields(f.I[f.ret[1]]) = Fields(inst[i])
                  /\ inst[i].employee_id.n \notin employees =>
                        ~f.ok /\ f.err = "ValueError"
      ]_vars

\* C3 as the spec states it: after a setter that succeeded, r.update() on an
\* object with a non-null id whose row is present writes a changed row that
\* holds r's fields, and a find_by_id(r.id) returns an object with those fields.
C3_AssignUpdateThenFind ==
    [][(last'.op = "update" /\ last.op \in {"year", "summary", "employee_id"} /\ last.ok
        /\ rows' # rows) =>
          \A i \in Objs :
              (Update(i) /\ inst[i].id # NoneId /\ inst[i].id \in DOMAIN rows) =>
                  LET f == find_by_id(Then, IntV(inst[i].id)) IN
                  /\ RowFields(rows'[inst[i].id]) = Fields(inst[i])
                  /\ f.ok /\ f.ret # <<>>
                  /\ Fields(f.I[f.ret[1]]) = Fields(inst[i])
      ]_vars

\* an update wrote the changed fields of a cached object to its row
C3_Witness ==
    /\ last.op = "update" /\ last.ok
    /\ \E i \in Objs :
          /\ inst[i].used /\ inst[i].id \in DOMAIN rows
          /\ inst[i].id \in DOMAIN all /\ all[inst[i].id] = i
          /\ RowFields(rows[inst[i].id]) = Fields(inst[i])
          /\ Fields(inst[i]) = <<IntV(MinYear + 1), StrV(<<" ", "B">>), IntV(1)>>
          /\ inst[i].employee_id.n \in employees

\* C4: r.delete() on an object with id N whose row is present removes row N
\* and the cache entry of N, sets r.id to None and leaves r's year, summary and
\* employee_id alone; find_by_id(N) and find_by_id(None) then return None.
C4_Delete ==
    [][(last'.op = "delete") =>
          \A i \in Objs :
              (Delete(i) /\ inst[i].id # NoneId /\ inst[i].id \in DOMAIN rows) =>
                  /\ last'.ok
                  /\ inst[i].id \notin DOMAIN rows'
                  /\ inst[i].id \notin DOMAIN all'
                  /\ inst'[i].id = NoneId
                  /\ Fields(inst'[i]) = Fields(inst[i])
                  /\ find_by_id(Then, IntV(inst[i].id)).ok
                  /\ find_by_id(Then, IntV(inst[i].id)).ret = <<>>
                  /\ find_by_id(Then, NoneV).ok
                  /\ find_by_id(Then, NoneV).ret = <<>>
      ]_vars

\* a delete succeeded and left another row and its cached object behind
C4_Witness ==
    /\ last.op = "delete" /\ last.ok
    /\ \E i \in Objs : inst[i].used /\ inst[i].id = NoneId /\ inst[i].year = IntV(MinYear + 1)
    /\ DOMAIN rows # {} /\ DOMAIN all = DOMAIN rows

\* C5: r.save() on an object whose id is None, with the table present, adds
\* exactly one row, holding r's year, summary and employee_id, under a rowid
\* the table did not have, makes that rowid r's id and binds it to r in the
\* cache; every other row and every other cache entry stay as they were.
C5_Save ==
    [][(last'.op = "save") =>
          \A i \in Objs :
              (Save(i) /\ inst[i].id = NoneId /\ tableExists) =>
                  LET rid == inst'[i].id IN
                  /\ last'.ok
                  /\ rid # NoneId /\ rid \notin DOMAIN rows
                  /\ DOMAIN rows' = DOMAIN rows \cup {rid}
                  /\ RowFields(rows'[rid]) = Fields(inst[i])
                  /\ \A k \in DOMAIN rows : rows'[k] = rows[k]
                  /\ inst' = [inst EXCEPT ![i].id = rid]
                  /\ DOMAIN all' = DOMAIN all \cup {rid}
                  /\ all'[rid] = i
                  /\ \A k \in DOMAIN all \ {rid} : all'[k] = all[k]
      ]_vars

\* a save of a transient object added a second row
C5_Witness ==
    /\ last.op = "save" /\ last.ok
    /\ DOMAIN rows = {1, 2} /\ DOMAIN all = {1, 2}
    /\ \E i \in Objs : inst[i].id = 2 /\ all[2] = i /\ all[1] # i
                       /\ RowFields(rows[2]) = Fields(inst[i])

\* C6: while only create, delete of a persisted object, find_by_id and get_all
\* have been called since the table was empty, N creates and M deletes having
\* succeeded, get_all returns N - M objects, one per row of the table in rowid
\* order, each the object the cache binds to the row's id.
C6_GetAllCount ==
    hist.valid =>
        LET g == get_all(Now)
            ids == Ascending(DOMAIN rows)
        IN /\ g.ok
           /\ Len(g.ret) = hist.n - hist.m
           /\ Len(g.ret) = Cardinality(DOMAIN rows)
           /\ \A k \in 1..Len(g.ret) :
                 /\ ids[k] \in DOMAIN all
                 /\ g.ret[k] = all[ids[k]]
                 /\ g.I[g.ret[k]].id = ids[k]

\* get_all returned one object after two creates and one delete
C6_Witness ==
    /\ last.op = "get_all" /\ last.ok
    /\ hist.valid /\ hist.n = 2 /\ hist.m = 1
    /\ Len(last.ret) = 1

\* C7: every object is Transient (id None, not a value of the cache) or
\* Persisted (id N, and the cache binds N to it), and every key of the cache
\* is the id of the object it is bound to.
Transient(i) == inst[i].id = NoneId /\ \A k \in DOMAIN all : all[k] # i
Persisted(i) == inst[i].id \in DOMAIN all /\ all[inst[i].id] = i
C7_Lifecycle ==
    /\ \A i \in Objs : inst[i].used => Transient(i) \/ Persisted(i)
    /\ \A k \in DOMAIN all : inst[all[k]].id = k

\* C8: no two objects hold the same non-null id.
C8_UniqueId ==
    \A i, j \in Objs :
        (i # j /\ inst[i].used /\ inst[j].used /\ inst[i].id # NoneId) =>
            inst[i].id # inst[j].id

\* C9: r.employee_id = v stores v when v is an int and the employees table has
\* the row v at that moment, and otherwise raises ValueError and changes no
\* object; Review(year, summary, v) raises when the setter would, and
\* constructs an object holding v when all three arguments are valid.
EmployeeIdValid(v) == v.t \in {"int", "bool"} /\ v.n \in employees
C9_EmployeeId ==
    [][/\ (last'.op = "employee_id") =>
            \A i \in Objs, v \in EmployeeIdInputs : SetEmployeeId(i, v) =>
                IF EmployeeIdValid(v)
                THEN last'.ok /\ inst' = [inst EXCEPT ![i].employee_id = v]
                ELSE ~last'.ok /\ last'.err = "ValueError" /\ inst' = inst
       /\ (last'.op = "init") =>
            \A a \in InitInputs : Construct(a[1], a[2], a[3]) =>
                /\ ~EmployeeIdValid(a[3]) =>
                      ~last'.ok /\ last'.err = "ValueError" /\ inst' = inst
                /\ (a[1] \in ValidYears /\ a[2] \in ValidSummaries
                    /\ EmployeeIdValid(a[3])) =>
                      last'.ok /\ inst'[last'.ret[1]].employee_id = a[3]
      ]_vars

\* an employee_id was assigned after the employee had been deleted and added
\* again, to an object that a constructor had accepted
C9_Witness ==
    /\ last.op = "employee_id" /\ last.ok
    /\ employees = EmpIds
    /\ \E i \in Objs : inst[i].used /\ inst[i].employee_id = BoolV(TRUE)

\* C10: r.year = v stores v when v is an int >= 2000 and otherwise raises
\* ValueError and changes no object; Review(v, summary, employee_id) raises
\* when the setter would and constructs an object holding v when all three
\* arguments are valid; so the year of every object is an int >= 2000.
YearValid(v) == v.t \in {"int", "bool"} /\ v.n >= 2000
C10_Year ==
    [][/\ (last'.op = "year") =>
            \A i \in Objs, v \in YearInputs : SetYear(i, v) =>
                IF YearValid(v)
                THEN last'.ok /\ inst' = [inst EXCEPT ![i].year = v]
                ELSE ~last'.ok /\ last'.err = "ValueError" /\ inst' = inst
       /\ (last'.op = "init") =>
            \A a \in InitInputs : Construct(a[1], a[2], a[3]) =>
                /\ ~YearValid(a[1]) =>
                      ~last'.ok /\ last'.err = "ValueError" /\ inst' = inst
                /\ (YearValid(a[1]) /\ a[2] \in ValidSummaries
                    /\ EmployeeIdValid(a[3])) =>
                      last'.ok /\ inst'[last'.ret[1]].year = a[1]
       /\ \A i \in Objs : inst'[i].used =>
              inst'[i].year.t = "int" /\ inst'[i].year.n >= 2000
      ]_vars

\* the later year was assigned to an object with the padded summary
C10_Witness ==
    /\ last.op = "year" /\ last.ok
    /\ \E i \in Objs : /\ inst[i].year = IntV(MinYear + 1)
                       /\ inst[i].summary = StrV(<<" ", "B">>)

\* C11: r.summary = v stores v itself, with its leading and trailing spaces,
\* when v is a string with a character that is not a space, and otherwise (not
\* a string, empty, spaces only) raises ValueError and changes no object;
\* Review(year, v, employee_id) raises when the setter would and constructs an
\* object holding v when all three arguments are valid.
SummaryValid(v) == v.t = "str" /\ \E k \in 1..Len(v.s) : v.s[k] # " "
C11_Summary ==
    [][/\ (last'.op = "summary") =>
            \A i \in Objs, v \in SummaryInputs : SetSummary(i, v) =>
                IF SummaryValid(v)
                THEN last'.ok /\ inst' = [inst EXCEPT ![i].summary = v]
                ELSE ~last'.ok /\ last'.err = "ValueError" /\ inst' = inst
       /\ (last'.op = "init") =>
            \A a \in InitInputs : Construct(a[1], a[2], a[3]) =>
                /\ ~SummaryValid(a[2]) =>
                      ~last'.ok /\ last'.err = "ValueError" /\ inst' = inst
                /\ (YearValid(a[1]) /\ SummaryValid(a[2])
                    /\ EmployeeIdValid(a[3])) =>
                      last'.ok /\ inst'[last'.ret[1]].summary = a[2]
      ]_vars

\* the summary with a trailing space was assigned and is held as given
C11_Witness ==
    /\ last.op = "summary" /\ last.ok
    /\ \E i \in Objs : inst[i].used /\ inst[i].summary = StrV(<<"B", " ">>)

\* C12: create_table and drop_table never raise; create_table on a table that
\* is present changes nothing (rows, cache, objects), and drop_table on a table
\* that is absent changes nothing; a second create_table after a create_table,
\* and a second drop_table after a drop_table, leave the state as the first did.
C12_SchemaIdempotent ==
    [][/\ (last'.op = "create_table" /\ CreateTable) =>
            /\ last'.ok
            /\ tableExists' /\ \A k \in DOMAIN rows : k \in DOMAIN rows' /\ rows'[k] = rows[k]
            /\ tableExists => Then = Now
            /\ create_table(Then) = Then
       /\ (last'.op = "drop_table" /\ DropTable) =>
            /\ last'.ok
            /\ ~tableExists'
            /\ ~tableExists => Then = Now
            /\ drop_table(Then) = Then
      ]_vars

\* create_table was called on a table that held two rows
C12_Witness ==
    /\ last.op = "create_table" /\ last.ok
    /\ tableExists /\ DOMAIN rows = {1, 2}

\* C13: with the table present, find_by_id(id) for an id that no row has
\* (None and 0 among them) returns None and changes neither the table, nor
\* the cache, nor any object, also when the cache has an entry under that id.
C13_FindAbsent ==
    [][(last'.op = "find_by_id") =>
          \A idv \in IdInputs :
              (FindById(idv) /\ tableExists
               /\ ~(idv.t = "int" /\ idv.n \in DOMAIN rows)) =>
                  /\ last'.ok
                  /\ last'.ret = <<>>
                  /\ tableExists' /\ rows' = rows
                  /\ all' = all
                  /\ inst' = inst
      ]_vars

\* find_by_id returned None on an empty table while the cache held both ids
C13_Witness ==
    /\ last.op = "find_by_id" /\ last.ok /\ last.ret = <<>>
    /\ tableExists /\ DOMAIN rows = {}
    /\ DOMAIN all = {1, 2}

\* C14 as the code has it.  find_by_id(N) on a row N whose values pass the
\* validation: when the cache has N, the cached object gets the row's year,
\* summary and employee_id and is returned, the cache and every id stay as
\* they were; when it has not, a new object with the row's values and id N is
\* returned and bound to N.  When a value of the row fails the validation the
\* call raises ValueError, and the cache and every id stay as they were.
\* get_all does the same for every row in rowid order: an object cached under
\* several ids ends with the values of the last of their rows.
RowValid(E, w) ==
    /\ w.year.t = "int" /\ w.year.n >= 2000
    /\ w.summary.t = "str" /\ \E k \in 1..Len(w.summary.s) : w.summary.s[k] # " "
    /\ w.employee_id.t = "int" /\ w.employee_id.n \in E
C14_Refresh ==
    [][/\ (last'.op = "find_by_id") =>
            \A idv \in IdInputs :
                (FindById(idv) /\ tableExists /\ idv.t = "int" /\ idv.n \in DOMAIN rows) =>
                    LET rid == idv.n
                        row == rows[rid]
                    IN /\ rows' = rows
                       /\ \A k \in DOMAIN all : k \in DOMAIN all' /\ all'[k] = all[k]
                       /\ \A j \in Objs : inst[j].used => inst'[j].id = inst[j].id
                       /\ last'.ok = RowValid(employees, row)
                       /\ ~last'.ok => last'.err = "ValueError" /\ all' = all
                       /\ (last'.ok /\ rid \in DOMAIN all) =>
                             /\ last'.ret = <<all[rid]>>
                             /\ all' = all
                             /\ Fields(inst'[all[rid]]) = RowFields(row)
                             /\ \A j \in Objs \ {all[rid]} : inst'[j] = inst[j]
                       /\ (last'.ok /\ rid \notin DOMAIN all) =>
                             LET o == last'.ret[1] IN
                             /\ ~inst[o].used
                             /\ inst'[o].used /\ inst'[o].id = rid
                             /\ Fields(inst'[o]) = RowFields(row)
                             /\ all' = With(all, rid, o)
                             /\ \A j \in Objs \ {o} : inst'[j] = inst[j]
       /\ (last'.op = "get_all" /\ GetAll /\ tableExists) =>
            /\ rows' = rows
            /\ \A k \in DOMAIN all : k \in DOMAIN all' /\ all'[k] = all[k]
            /\ \A j \in Objs : inst[j].used => inst'[j].id = inst[j].id
            /\ last'.ok = \A k \in DOMAIN rows : RowValid(employees, rows[k])
            /\ last'.ok =>
                  /\ DOMAIN all' = DOMAIN all \cup DOMAIN rows
                  /\ \A k \in DOMAIN rows :
                        /\ k \notin DOMAIN all =>
                              ~inst[all'[k]].used /\ inst'[all'[k]].id = k
                        /\ (\A n \in DOMAIN rows : n > k => all'[n] # all'[k]) =>
                              Fields(inst'[all'[k]]) = RowFields(rows[k])
      ]_vars

\* C14 as the spec states it: find_by_id(N) on a row N returns the cached
\* object with the row's values when the cache has N, and a new object with
\* the row's values and id N, bound to N, when it has not.
C14_RefreshAlways ==
    [][(last'.op = "find_by_id") =>
          \A idv \in IdInputs :
              (FindById(idv) /\ tableExists /\ idv.t = "int" /\ idv.n \in DOMAIN rows) =>
                  LET rid == idv.n IN
                  /\ last'.ok /\ last'.ret # <<>>
                  /\ rid \in DOMAIN all => last'.ret = <<all[rid]>> /\ all' = all
                  /\ rid \notin DOMAIN all => all' = With(all, rid, last'.ret[1])
                  /\ Fields(inst'[last'.ret[1]]) = RowFields(rows[rid])
                  /\ \A j \in Objs : inst[j].used => inst'[j].id = inst[j].id
      ]_vars

\* a find_by_id returned the object cached under id 2, holding the values of
\* row 2, while another object is cached under id 1
C14_Witness ==
    /\ last.op = "find_by_id" /\ last.ok /\ last.ret # <<>>
    /\ DOMAIN rows = {1, 2} /\ DOMAIN all = {1, 2} /\ all[1] # all[2]
    /\ last.ret = <<all[2]>>
    /\ inst[all[2]].id = 2
    /\ Fields(inst[all[2]]) = RowFields(rows[2])
    /\ rows[2].year = IntV(MinYear + 1)
    /\ rows[1].year = IntV(MinYear)

\* C15 as the code has it: r.update() leaves the cache, every object and every
\* row but the one with r's id as they were, and adds or removes no row; with
\* the table present it raises nothing, and changes no row when r's id is None
\* or no row has it; with the table absent it raises OperationalError.
C15_UpdateFrame ==
    [][(last'.op = "update") =>
          \A i \in Objs : Update(i) =>
              /\ all' = all
              /\ inst' = inst
              /\ DOMAIN rows' = DOMAIN rows
              /\ \A k \in DOMAIN rows \ {inst[i].id} : rows'[k] = rows[k]
              /\ last'.ok = tableExists
              /\ ~tableExists => last'.err = "OperationalError"
              /\ (inst[i].id = NoneId \/ inst[i].id \notin DOMAIN rows) => rows' = rows
      ]_vars

\* C15 as the spec states it: r.update() leaves the cache, every object and
\* every row but the one with r's id as they were; when r's id is None or no
\* row has it, no row changes and nothing is raised.
C15_UpdateNeverRaises ==
    [][(last'.op = "update") =>
          \A i \in Objs : Update(i) =>
              /\ all' = all
              /\ inst' = inst
              /\ \A k \in DOMAIN rows \ {inst[i].id} :
                    k \in DOMAIN rows' /\ rows'[k] = rows[k]
              /\ (inst[i].id = NoneId \/ inst[i].id \notin DOMAIN rows) =>
                    rows' = rows /\ last'.ok
      ]_vars

\* an update was called while every object had the id None and the table held
\* a row
C15_Witness ==
    /\ last.op = "update" /\ last.ok
    /\ tableExists /\ DOMAIN rows = {1} /\ all = Empty
    /\ \E i \in Objs : inst[i].used
    /\ \A i \in Objs : inst[i].used => inst[i].id = NoneId

\* C16: r.delete() on an object whose id is None raises (KeyError with the
\* table present, OperationalError with the table absent) and leaves the rows,
\* the cache and every object, r with its id None among them, as they were.
C16_DeleteTransient ==
    [][(last'.op = "delete") =>
          \A i \in Objs : (Delete(i) /\ inst[i].id = NoneId) =>
              /\ ~last'.ok
              /\ last'.err = IF tableExists THEN "KeyError" ELSE "OperationalError"
              /\ tableExists' = tableExists /\ rows' = rows
              /\ all' = all
              /\ inst' = inst
              /\ inst'[i].id = NoneId
      ]_vars

\* a delete raised KeyError on an object with the id None, while the table and
\* the cache held the row of the one object with an id
C16_Witness ==
    /\ last.op = "delete" /\ ~last.ok /\ last.err = "KeyError"
    /\ tableExists /\ DOMAIN rows = {1} /\ DOMAIN all = {1}
    /\ inst[all[1]].id = 1
    /\ \E i \in Objs : inst[i].used /\ inst[i].id = NoneId
    /\ \A i \in Objs : (inst[i].used /\ i # all[1]) => inst[i].id = NoneId

\* C17: a create with an argument that fails the validation raises ValueError
\* and leaves the rows, the cache and every object as they were; an assignment
\* to year, summary or employee_id of a value that fails the validation raises
\* ValueError and leaves every object (the assigned field, the other fields,
\* the id), the rows and the cache as they were.
C17_FailureFrame ==
    [][/\ (/\ last'.op = "create"
           /\ \E y \in Years, s \in Summaries, e \in EmployeeIds :
                 /\ ~(YearValid(y) /\ SummaryValid(s) /\ EmployeeIdValid(e))
                 /\ Create(y, s, e)) =>
            /\ ~last'.ok /\ last'.err = "ValueError"
            /\ last'.ret = <<>>
            /\ tableExists' = tableExists /\ rows' = rows
            /\ all' = all
            /\ inst' = inst
       /\ (last'.op = "year") =>
            \A i \in Objs, v \in Years : (~YearValid(v) /\ SetYear(i, v)) =>
                /\ ~last'.ok /\ last'.err = "ValueError"
                /\ inst' = inst
                /\ tableExists' = tableExists /\ rows' = rows /\ all' = all
       /\ (last'.op = "summary") =>
            \A i \in Objs, v \in Summaries : (~SummaryValid(v) /\ SetSummary(i, v)) =>
                /\ ~last'.ok /\ last'.err = "ValueError"
                /\ inst' = inst
                /\ tableExists' = tableExists /\ rows' = rows /\ all' = all
       /\ (last'.op = "employee_id") =>
            \A i \in Objs, v \in EmployeeIds :
                (~EmployeeIdValid(v) /\ SetEmployeeId(i, v)) =>
                    /\ ~last'.ok /\ last'.err = "ValueError"
                    /\ inst' = inst
                    /\ tableExists' = tableExists /\ rows' = rows /\ all' = all
      ]_vars

\* a create raised ValueError while the table and the cache held one row
C17_Witness ==
    /\ last.op = "create" /\ ~last.ok /\ last.err = "ValueError"
    /\ tableExists /\ DOMAIN rows = {1} /\ DOMAIN all = {1}
    /\ inst[all[1]].id = 1

\* C18: every key of the identity cache is the id of a row of the reviews
\* table.
C18_CacheAgrees == DOMAIN all \subseteq DOMAIN rows

\* C19: a find_by_id(N) on a row N that the cache has and whose values fail
\* the validation, and a get_all on a table with such a row, raise ValueError
\* and leave the year, summary and employee_id of every cached object as they
\* were before the call.
C19_AtomicRefresh ==
    [][/\ (last'.op = "find_by_id") =>
            \A idv \in IdInputs :
                (/\ tableExists /\ idv.t = "int"
                 /\ idv.n \in DOMAIN rows /\ idv.n \in DOMAIN all
                 /\ ~RowValid(employees, rows[idv.n])
                 /\ FindById(idv)) =>
                    /\ ~last'.ok /\ last'.err = "ValueError"
                    /\ Fields(inst'[all[idv.n]]) = Fields(inst[all[idv.n]])
       /\ (/\ last'.op = "get_all"
           /\ tableExists
           /\ \E k \in DOMAIN rows : k \in DOMAIN all /\ ~RowValid(employees, rows[k])
           /\ GetAll) =>
            /\ ~last'.ok /\ last'.err = "ValueError"
            /\ \A k \in DOMAIN all : Fields(inst'[all[k]]) = Fields(inst[all[k]])
      ]_vars

====
